---- MODULE Spec2Model ----
(***************************************************************************)
(* Family Guy new-episode emailer (fam_guy_ep_email.py).                   *)
(*                                                                         *)
(* One run of main() loads the two state files, fetches the episode list,  *)
(* decides between a "new episode" mail, an "upcoming episodes" mail and   *)
(* nothing, sends at most one mail and, when the send succeeded, rewrites  *)
(* the state files.  The model keeps the two files across runs and lets    *)
(* an external scheduler start main() again and again.                     *)
(*                                                                         *)
(* Dates are day numbers; NoDate stands for a missing airdate (None or     *)
(* ""), which Python treats as false.  Well-formed ISO-8601 dates compare  *)
(* as strings exactly as their day numbers compare.                        *)
(* An optional value (None or a value, a missing or an existing file) is   *)
(* a sequence of length 0 or 1.                                            *)
(***************************************************************************)
EXTENDS Integers, Sequences, FiniteSets, TLC

VARIABLES
    latest_episode_json,    \* LATEST_EP_FILE: <<>> or <<record>>
    upcoming_notified_json, \* UPCOMING_NOTIFIED_FILE: <<>> or <<list of ids>>
    pc,                     \* "idle", "loaded" (main at line 177), "done"
    response,               \* what the API answers in this run, with today
    previous_episode,       \* main's local, line 173
    notified_upcoming,      \* main's local, line 174
    latest,                 \* main's local, line 175: <<>> or <<episode>>
    upcoming,               \* main's local, line 175
    outcome,                \* branch main took: "NewAired", "UpcomingChanged", "NoChange", "None"
    sends,                  \* the send_email calls of this run, in order
    errors,                 \* what this run wrote with log.error
    exit,                   \* "running", "returned" or "uncaught"
    before,                 \* the two state files as they were when this run started
    prior,                  \* <<>>, or <<what the run before did>> when it got the same response
    hist                    \* history of the successful sends (see TrackAired, TrackUpcoming)

vars == <<latest_episode_json, upcoming_notified_json, pc, response,
          previous_episode, notified_upcoming, latest, upcoming,
          outcome, sends, errors, exit, before, prior, hist>>

-----------------------------------------------------------------------------
(* Bounds of the explored inputs *)

MaxDay == 3         \* the airdates 1..MaxDay

NoDate == 0         \* a missing airdate (None or ""), false at lines 119-120

UpcomingLimit == 5  \* the [:5] of lines 59, 66 and 137

\* the day the runs happen: the last airdate is still ahead
Today == MaxDay - 1

\* the episodes whose data vary: the later season has the lower number
Catalogue ==
    {[id |-> 1, season |-> 1, number |-> 2], [id |-> 2, season |-> 2, number |-> 1]}

\* the titles an episode of the catalogue may carry
Names == {"Pilot", "Reboot"}

\* summaries as token lists; <<>> is a missing summary
SummaryOf(i) == IF i % 2 = 1 THEN <<>> ELSE <<"<p>", " ", "text", "</p>">>

Episode(i, s, n, nm, d) ==
    [id |-> i, season |-> s, number |-> n, name |-> nm, airdate |-> d,
     summary |-> SummaryOf(i)]

Pool == {Episode(c.id, c.season, c.number, nm, d) :
            c \in Catalogue, nm \in Names, d \in NoDate..MaxDay}

\* k further episodes of season 3, untitled, scheduled after every date of the pool
Scheduled(k) == [j \in 1..k |-> Episode(10 + j, 3, j, "", MaxDay + 1)]

\* episode lists as the API gives them: no id twice, any order
Lists ==
    {h \in UNION {[1..n -> Pool] : n \in 0..Cardinality(Catalogue)} :
        \A i, j \in 1..Len(h) : i # j => h[i].id # h[j].id}

Responses ==
    {[kind |-> "error", episodes |-> <<>>, today |-> Today]}
    \cup {[kind |-> "data", episodes |-> h \o Scheduled(k), today |-> Today] :
            h \in Lists, k \in {0, UpcomingLimit}}

-----------------------------------------------------------------------------
(* Helpers *)

Take(s, n) == IF Len(s) <= n THEN s ELSE SubSeq(s, 1, n)

Ids(s) == [i \in 1..Len(s) |-> s[i].id]

-----------------------------------------------------------------------------
(* State files *)

load_upcoming_notified(file) == IF file # <<>> THEN file[1] ELSE <<>>

\* the list written whole, without the [:5]
save_upcoming_notified_untruncated(up) == <<Ids(up)>>

save_upcoming_notified(up) == <<Ids(Take(up, UpcomingLimit))>>

\* the ids compared as sets
has_new_upcoming_unordered(up, notified_ids) ==
    IF up = <<>> THEN FALSE
    ELSE {up[i].id : i \in 1..Len(Take(up, UpcomingLimit))}
            # {notified_ids[i] : i \in 1..Len(notified_ids)}

has_new_upcoming(up, notified_ids) ==
    IF up = <<>> THEN FALSE
    ELSE Ids(Take(up, UpcomingLimit)) # notified_ids

load_previous_episode(file) == file

\* "episode" written from the season
save_latest_episode_wrong_field(episode) ==
    <<[title |-> episode.name, season |-> episode.season,
       episode |-> episode.season, airdate |-> episode.airdate]>>

save_latest_episode(episode) ==
    <<[title |-> episode.name, season |-> episode.season,
       episode |-> episode.number, airdate |-> episode.airdate]>>

-----------------------------------------------------------------------------
(* fetch_episodes *)

\* the key of line 126, compared as Python compares tuples
KeyLess(a, b) ==
    \/ a[1] < b[1]
    \/ a[1] = b[1] /\ a[2] < b[2]
    \/ a[1] = b[1] /\ a[2] = b[2] /\ a[3] < b[3]

\* the key without the airdate
latest_key_without_airdate(ep) == <<ep.season, ep.number, NoDate>>

latest_key(ep) == <<ep.airdate, ep.season, ep.number>>

\* Python's max: the first element no later one exceeds
max_by_key(s) ==
    LET best[i \in 1..Len(s)] ==
            IF i = 1 THEN s[1]
            ELSE IF KeyLess(latest_key(best[i - 1]), latest_key(s[i]))
                 THEN s[i] ELSE best[i - 1]
    IN  best[Len(s)]

\* re.sub(r'</?p>', '', summary).strip()
StripSpaces(s) ==
    LET keep == {i \in 1..Len(s) : s[i] # " "}
    IN  IF keep = {} THEN <<>>
        ELSE LET lo == CHOOSE i \in keep : \A j \in keep : i <= j
                 hi == CHOOSE i \in keep : \A j \in keep : j <= i
             IN  SubSeq(s, lo, hi)

IsNotP(t) == t \notin {"<p>", "</p>"}

clean_summary(summary) ==
    LET text == IF summary = <<>> THEN <<"No summary available.">> ELSE summary
    IN  StripSpaces(SelectSeq(text, IsNotP))

aired_of(episodes, today) ==
    LET IsAired(ep) == ep.airdate # NoDate /\ ep.airdate <= today
    IN  SelectSeq(episodes, IsAired)

upcoming_of(episodes, today) ==
    LET IsUpcoming(ep) == ep.airdate # NoDate /\ ep.airdate > today
    IN  SelectSeq(episodes, IsUpcoming)

fetch_episodes(resp) ==
    IF resp.kind = "error"
    THEN [latest |-> <<>>, upcoming |-> <<>>, errors |-> <<"Failed to fetch episode data">>]
    ELSE IF resp.episodes = <<>>
    THEN [latest |-> <<>>, upcoming |-> <<>>, errors |-> <<"No episodes found in API response">>]
    ELSE LET aired == aired_of(resp.episodes, resp.today)
             up    == upcoming_of(resp.episodes, resp.today)
         IN  IF aired = <<>>
             THEN [latest |-> <<>>, upcoming |-> up, errors |-> <<"No aired episodes found">>]
             ELSE LET top == max_by_key(aired)
                  IN  [latest |-> <<[top EXCEPT !.summary = clean_summary(top.summary)]>>,
                       upcoming |-> up, errors |-> <<>>]

-----------------------------------------------------------------------------
(* Mail *)

format_upcoming_html(up) ==
    IF up = <<>> THEN <<>>
    ELSE LET shown == Take(up, UpcomingLimit)
         IN  [i \in 1..Len(shown) |->
                [label   |-> <<shown[i].season, shown[i].number>>,
                 title   |-> IF shown[i].name = "" THEN "TBA" ELSE shown[i].name,
                 airdate |-> IF shown[i].airdate = NoDate THEN <<"TBA">>
                             ELSE <<shown[i].airdate>>]]

new_episode_mail(ep, up) ==
    [kind    |-> "new",
     subject |-> <<"New Family Guy Episode", ep.season, ep.number>>,
     fields  |-> <<ep.name, ep.season, ep.number, ep.airdate, ep.summary>>,
     table   |-> format_upcoming_html(up)]

upcoming_mail(up) ==
    [kind    |-> "upcoming",
     subject |-> <<"Family Guy: Upcoming Episodes">>,
     fields  |-> <<>>,
     table   |-> format_upcoming_html(up)]

\* send_email: any exception of the SMTP exchange is logged and becomes False
send_email(fault) == fault # "smtp"

Attempt(mail, ok) == [mail |-> mail, ok |-> ok]

-----------------------------------------------------------------------------
(* main, lines 177-205.  lf and uf are the two state files; the result    *)
(* holds the files as the branch leaves them.                             *)

\* the title compared too
is_new_episode_by_title(lat, previous) ==
    \/ previous = <<>>
    \/ previous[1].season # lat.season
    \/ previous[1].episode # lat.number
    \/ previous[1].title # lat.name

is_new_episode(lat, previous) ==
    \/ previous = <<>>
    \/ previous[1].season # lat.season
    \/ previous[1].episode # lat.number

Result(o, s, lf, uf, x, e) ==
    [outcome |-> o, sends |-> s, latest_file |-> lf, upcoming_file |-> uf,
     exit |-> x, errors |-> e]

\* the state saved whatever send_email returned
new_episode_branch_unguarded(lat, up, lf, uf, fault) ==
    LET ok == send_email(fault)
        s  == <<Attempt(new_episode_mail(lat, up), ok)>>
    IN  Result("NewAired", s, save_latest_episode(lat),
               IF up = <<>> THEN uf ELSE save_upcoming_notified(up), "returned",
               IF ok THEN <<>> ELSE <<"Failed to send email">>)

new_episode_branch(lat, up, lf, uf, fault) ==
    IF fault = "substitute"
    THEN Result("NewAired", <<>>, lf, uf, "uncaught", <<>>)
    ELSE LET ok == send_email(fault)
             s  == <<Attempt(new_episode_mail(lat, up), ok)>>
         IN  IF ~ok
             THEN Result("NewAired", s, lf, uf, "returned", <<"Failed to send email">>)
             ELSE IF fault = "write_latest"
             THEN Result("NewAired", s, lf, uf, "uncaught", <<>>)
             ELSE IF up = <<>>
             THEN Result("NewAired", s, save_latest_episode(lat), uf, "returned", <<>>)
             ELSE IF fault = "write_upcoming"
             THEN Result("NewAired", s, save_latest_episode(lat), uf, "uncaught", <<>>)
             ELSE Result("NewAired", s, save_latest_episode(lat),
                         save_upcoming_notified(up), "returned", <<>>)

\* the upcoming list saved whatever send_email returned
upcoming_branch_unguarded(lat, up, lf, uf, fault) ==
    LET ok == send_email(fault)
        s  == <<Attempt(upcoming_mail(up), ok)>>
    IN  Result("UpcomingChanged", s, lf, save_upcoming_notified(up), "returned",
               IF ok THEN <<>> ELSE <<"Failed to send email">>)

\* the latest episode saved as in the new-episode branch
upcoming_branch_saves_latest(lat, up, lf, uf, fault) ==
    LET ok == send_email(fault)
        s  == <<Attempt(upcoming_mail(up), ok)>>
    IN  IF ~ok
        THEN Result("UpcomingChanged", s, lf, uf, "returned", <<"Failed to send email">>)
        ELSE Result("UpcomingChanged", s,
                    IF lat = <<>> THEN lf ELSE save_latest_episode(lat[1]),
                    save_upcoming_notified(up), "returned", <<>>)

\* lines 196-203; lat is main's latest, which the branch leaves alone
upcoming_branch(lat, up, lf, uf, fault) ==
    IF fault = "substitute"
    THEN Result("UpcomingChanged", <<>>, lf, uf, "uncaught", <<>>)
    ELSE LET ok == send_email(fault)
             s  == <<Attempt(upcoming_mail(up), ok)>>
         IN  IF ~ok
             THEN Result("UpcomingChanged", s, lf, uf, "returned", <<"Failed to send email">>)
             ELSE IF fault = "write_upcoming"
             THEN Result("UpcomingChanged", s, lf, uf, "uncaught", <<>>)
             ELSE Result("UpcomingChanged", s, lf, save_upcoming_notified(up),
                         "returned", <<>>)

\* "if" in place of "elif": the upcoming check made after the new-episode branch too
main_decide_no_elif(prev, notified, lat, up, lf, uf, fault) ==
    LET first == IF lat # <<>> /\ is_new_episode(lat[1], prev)
                 THEN new_episode_branch(lat[1], up, lf, uf, fault)
                 ELSE Result("NoChange", <<>>, lf, uf, "returned", <<>>)
    IN  IF first.exit = "returned" /\ has_new_upcoming(up, notified)
        THEN LET second == upcoming_branch(lat, up, first.latest_file,
                                           first.upcoming_file, fault)
             IN  Result(IF first.outcome = "NoChange" THEN second.outcome
                        ELSE first.outcome,
                        first.sends \o second.sends, second.latest_file,
                        second.upcoming_file, second.exit,
                        first.errors \o second.errors)
        ELSE first

main_decide(prev, notified, lat, up, lf, uf, fault) ==
    IF lat # <<>> /\ is_new_episode(lat[1], prev)
    THEN new_episode_branch(lat[1], up, lf, uf, fault)
    ELSE IF has_new_upcoming(up, notified)
    THEN upcoming_branch(lat, up, lf, uf, fault)
    ELSE Result("NoChange", <<>>, lf, uf, "returned", <<>>)

-----------------------------------------------------------------------------
(* The run as steps of the process *)

LoadFaults == {"none", "config", "state_read", "response_shape"}
NotifyFaults == {"none", "substitute", "smtp", "write_latest", "write_upcoming"}

Init ==
    /\ latest_episode_json = <<>>
    /\ upcoming_notified_json = <<>>
    /\ pc = "idle"
    /\ response = [kind |-> "error", episodes |-> <<>>, today |-> Today]
    /\ previous_episode = <<>>
    /\ notified_upcoming = <<>>
    /\ latest = <<>>
    /\ upcoming = <<>>
    /\ outcome = "None"
    /\ sends = <<>>
    /\ errors = <<>>
    /\ exit = "returned"
    /\ before = <<<<>>, <<>>>>
    /\ prior = <<>>
    /\ hist = [new |-> <<>>, listed |-> <<>>, upcoming |-> <<>>]

\* lines 158-175 over the API's answer resp
Load(resp, fault) ==
    /\ response' = resp
    /\ before' = <<latest_episode_json, upcoming_notified_json>>
    /\ outcome' = "None"
    /\ sends' = <<>>
    /\ UNCHANGED <<latest_episode_json, upcoming_notified_json, hist>>
    /\ IF fault = "config"
       THEN /\ pc' = "done"
            /\ exit' = "returned"
            /\ errors' = <<"Failed to load config/template">>
            /\ UNCHANGED <<previous_episode, notified_upcoming, latest, upcoming>>
       ELSE IF fault = "state_read" \/ (fault = "response_shape" /\ resp.kind = "data")
       THEN /\ fault = "state_read" =>
                    latest_episode_json # <<>> \/ upcoming_notified_json # <<>>
            /\ pc' = "done"
            /\ exit' = "uncaught"
            /\ errors' = <<>>
            /\ UNCHANGED <<previous_episode, notified_upcoming, latest, upcoming>>
       ELSE LET got == fetch_episodes(resp)
            IN  /\ previous_episode' = load_previous_episode(latest_episode_json)
                /\ notified_upcoming' = load_upcoming_notified(upcoming_notified_json)
                /\ latest' = got.latest
                /\ upcoming' = got.upcoming
                /\ errors' = got.errors
                /\ pc' = "loaded"
                /\ exit' = "running"

\* the scheduler starts main() and the API answers resp
main_load(resp, fault) ==
    /\ pc = "idle"
    /\ prior' = <<>>
    /\ Load(resp, fault)

\* the scheduler starts main() again and the API answers as in the run before
main_load_again(fault) ==
    /\ pc = "done"
    /\ prior' = <<[outcome |-> outcome, sends |-> sends,
                   notified |-> \/ sends # <<>> /\ sends[1].ok
                                \/ prior # <<>> /\ prior[1].notified]>>
    /\ Load(response, fault)

\* lines 177-205
main_notify(fault) ==
    /\ pc = "loaded"
    /\ LET r == main_decide(previous_episode, notified_upcoming, latest, upcoming,
                            latest_episode_json, upcoming_notified_json, fault)
       IN  /\ outcome' = r.outcome
           /\ sends' = r.sends
           /\ latest_episode_json' = r.latest_file
           /\ upcoming_notified_json' = r.upcoming_file
           /\ exit' = r.exit
           /\ errors' = errors \o r.errors
    /\ pc' = "done"
    /\ UNCHANGED <<response, previous_episode, notified_upcoming, latest, upcoming,
                   before, prior>>

\* the process is gone; only the files remain
process_exit ==
    /\ pc = "done"
    /\ pc' = "idle"
    /\ response' = [kind |-> "error", episodes |-> <<>>, today |-> Today]
    /\ previous_episode' = <<>>
    /\ notified_upcoming' = <<>>
    /\ latest' = <<>>
    /\ upcoming' = <<>>
    /\ outcome' = "None"
    /\ sends' = <<>>
    /\ errors' = <<>>
    /\ exit' = "returned"
    /\ before' = <<<<>>, <<>>>>
    /\ prior' = <<>>
    /\ UNCHANGED <<latest_episode_json, upcoming_notified_json, hist>>

-----------------------------------------------------------------------------
(* History *)

SentOk(kind) ==
    /\ pc = "done"
    /\ sends # <<>>
    /\ sends[1].ok
    /\ sends[1].mail.kind = kind

\* the episodes of a response whose airdate is on or before its today
AiredSet(resp) ==
    {resp.episodes[i] : i \in {j \in 1..Len(resp.episodes) :
        /\ resp.episodes[j].airdate # NoDate
        /\ resp.episodes[j].airdate <= resp.today}}

\* the ids of the future-dated episodes of a response, in source order
FutureIds(resp) ==
    LET n == Len(resp.episodes)
        future == {j \in 1..n : /\ resp.episodes[j].airdate # NoDate
                               /\ resp.episodes[j].airdate > resp.today}
        Place(j) == Cardinality({k \in future : k <= j})
    IN  [p \in 1..Cardinality(future) |->
            resp.episodes[CHOOSE j \in future : Place(j) = p].id]

\* hist.new: the aired episodes of the fetch of the latest run whose new-episode
\*           send succeeded
TrackAired ==
    hist' = [hist EXCEPT
                !.new = IF SentOk("new")' THEN <<AiredSet(response')>> ELSE @]

\* hist.listed:   the future ids of the fetch of the latest run whose send succeeded
\*                and whose fetch had future-dated episodes
\* hist.upcoming: the future ids of the fetch of the latest run whose
\*                upcoming-episodes send succeeded
TrackUpcoming ==
    hist' = [hist EXCEPT
                !.listed = IF /\ SentOk("new")' \/ SentOk("upcoming")'
                              /\ FutureIds(response') # <<>>
                           THEN <<FutureIds(response')>> ELSE @,
                !.upcoming = IF SentOk("upcoming")'
                             THEN <<FutureIds(response')>> ELSE @]

-----------------------------------------------------------------------------
(* Specifications *)

Start == \E resp \in Responses : main_load(resp, "none")
StartAgain == main_load_again("none")
Notify == (\E fault \in {"none", "smtp"} : main_notify(fault)) /\ UNCHANGED hist
NotifyAired == (\E fault \in {"none", "smtp"} : main_notify(fault)) /\ TrackAired
NotifyUpcoming == (\E fault \in {"none", "smtp"} : main_notify(fault)) /\ TrackUpcoming

\* every sequence of runs in which the mail server may fail; StartAgain marks
\* the runs that get the fetch result of the run before
Next == Start \/ StartAgain \/ Notify \/ process_exit

Spec == Init /\ [][Next]_vars

\* every sequence of runs, with the history of the aired episodes
NextAired == Start \/ NotifyAired \/ process_exit

SpecAired == Init /\ [][NextAired]_vars

\* every sequence of runs, with the history of the future-dated episodes
NextUpcoming == Start \/ NotifyUpcoming \/ process_exit

SpecUpcoming == Init /\ [][NextUpcoming]_vars

\* runs in which every step that can raise may raise
StartFaulty == \E resp \in Responses, fault \in LoadFaults : main_load(resp, fault)
NotifyFaulty == (\E fault \in NotifyFaults : main_notify(fault)) /\ UNCHANGED hist

NextFaults == StartFaulty \/ NotifyFaulty \/ process_exit

SpecFaults == Init /\ [][NextFaults]_vars

-----------------------------------------------------------------------------
(* What the claims speak of, stated on the API's answer and on the state  *)
(* files as the run found them, not with main's own operators             *)

Range(s) == {s[i] : i \in 1..Len(s)}

Files == <<latest_episode_json, upcoming_notified_json>>

\* the run has gone through lines 177-205
Decided == pc = "done" /\ outcome # "None"

SendFailed == Decided /\ sends # <<>> /\ ~sends[1].ok

Mails(ss) == [i \in 1..Len(ss) |-> ss[i].mail]

Triple(e) == <<e.airdate, e.season, e.number>>

TripleLess(a, b) ==
    \/ a[1] < b[1]
    \/ a[1] = b[1] /\ a[2] < b[2]
    \/ a[1] = b[1] /\ a[2] = b[2] /\ a[3] < b[3]

\* the aired episodes of the highest (airdate, season, number)
Highest(aired) == {e \in aired : \A o \in aired : ~TripleLess(Triple(e), Triple(o))}

\* Aired-State rec names the latest aired episode of the set aired
SameEpisode(rec, aired) ==
    \E e \in Highest(aired) : rec.season = e.season /\ rec.episode = e.number

\* Aired-State rec is the record of the latest aired episode of the set aired
Reflects(rec, aired) ==
    \E e \in Highest(aired) :
        rec = [title |-> e.name, season |-> e.season, episode |-> e.number,
               airdate |-> e.airdate]

\* the NewAired condition of the run, on its fetch and the Aired-State it found
NewAiredHolds ==
    /\ AiredSet(response) # {}
    /\ \/ before[1] = <<>>
       \/ ~SameEpisode(before[1][1], AiredSet(response))

FirstFive(ids) == IF Len(ids) <= UpcomingLimit THEN ids ELSE SubSeq(ids, 1, UpcomingLimit)

\* the Upcoming-State the run found; a missing file reads as the empty list
StoredIds == IF before[2] = <<>> THEN <<>> ELSE before[2][1]

UpcomingChangedHolds ==
    /\ ~NewAiredHolds
    /\ FutureIds(response) # <<>>
    /\ FirstFive(FutureIds(response)) # StoredIds

-----------------------------------------------------------------------------
(* Claims *)

\* C1: a run whose send_email returned False leaves both state files as it
\* found them, whichever mail it tried to send.
C1_FailedSendWritesNothing == SendFailed => Files = before

\* a failed new-episode send in a run that found an older Aired-State and whose
\* fetch lists future episodes the stored Upcoming-State does not
C1_Witness ==
    /\ SendFailed
    /\ outcome = "NewAired"
    /\ before[1] # <<>>
    /\ FutureIds(response) # <<>>
    /\ FirstFive(FutureIds(response)) # StoredIds

\* C2: a run attempts at most one send, and when the NewAired condition holds
\* that send is the new-episode mail, never the upcoming-episodes mail.
C2_OneSendNewAiredFirst ==
    pc = "done" =>
        /\ Len(sends) <= 1
        /\ NewAiredHolds => \A i \in 1..Len(sends) : sends[i].mail.kind = "new"

\* NewAired holds while the first five future ids differ from the stored ones
C2_Witness ==
    /\ Decided
    /\ NewAiredHolds
    /\ before[2] # <<>>
    /\ FutureIds(response) # <<>>
    /\ FirstFive(FutureIds(response)) # StoredIds
    /\ Len(sends) = 1

\* C3: the outcome is NewAired exactly when some episode has aired and either
\* no Aired-State was stored or the latest aired episode, by (airdate, season,
\* number), has another (season, number) than the stored one.
C3_NewAiredIff == Decided => (outcome = "NewAired" <=> NewAiredHolds)

\* the stored episode is still the latest one, under another title or airdate
C3_Witness ==
    /\ Decided
    /\ outcome # "NewAired"
    /\ before[1] # <<>>
    /\ Cardinality(AiredSet(response)) > 1
    /\ ~Reflects(before[1][1], AiredSet(response))

\* C4: the outcome is UpcomingChanged exactly when NewAired does not hold, some
\* episode is future-dated and the first five future ids, in source order,
\* differ as a sequence from the stored Upcoming-State.
C4_UpcomingChangedIff == Decided => (outcome = "UpcomingChanged" <=> UpcomingChangedHolds)

\* the same ids as stored, in another order
C4_Witness ==
    /\ Decided
    /\ outcome = "UpcomingChanged"
    /\ before[2] # <<>>
    /\ Range(FirstFive(FutureIds(response))) = Range(StoredIds)

\* C5 as stated: Aired-State, when set, names the highest aired episode of the
\* fetch of the latest run whose send, of either mail, succeeded.  Stated of the
\* state such a run ends in, where the latest run whose send succeeded is that run.
C5_AiredStateOfLastSend ==
    (/\ SentOk("new") \/ SentOk("upcoming")
     /\ latest_episode_json # <<>>)
    => SameEpisode(latest_episode_json[1], AiredSet(response))

\* C5 amended: Aired-State, when set, is the record of the highest aired
\* episode of the fetch of the latest run whose new-episode send succeeded.
C5_AiredStateOfLastNewSend ==
    latest_episode_json # <<>> =>
        /\ hist.new # <<>>
        /\ Reflects(latest_episode_json[1], hist.new[1])

\* a new-episode send over a fetch with several aired episodes, the highest
\* not the first
C5_Witness ==
    /\ SentOk("new")
    /\ Cardinality(AiredSet(response)) > 1
    /\ aired_of(response.episodes, response.today)[1] \notin Highest(AiredSet(response))

\* C6 as stated: Upcoming-State, when set, is the first five future ids of the
\* fetch of the latest run whose upcoming-episodes send succeeded.
C6_UpcomingStateOfLastUpcomingSend ==
    upcoming_notified_json # <<>> =>
        /\ hist.upcoming # <<>>
        /\ upcoming_notified_json[1] = FirstFive(hist.upcoming[1])

\* C6 amended: Upcoming-State, when set, is the first five future ids of the
\* fetch of the latest run whose send, of either mail, succeeded and whose
\* fetch had a future-dated episode; it never holds more than five ids.
C6_UpcomingStateOfLastListing ==
    upcoming_notified_json # <<>> =>
        /\ hist.listed # <<>>
        /\ upcoming_notified_json[1] = FirstFive(hist.listed[1])
        /\ Len(upcoming_notified_json[1]) <= UpcomingLimit

\* a send over a fetch with more than five future episodes replaced an older
\* Upcoming-State
C6_Witness ==
    /\ SentOk("upcoming")
    /\ before[2] # <<>>
    /\ Len(FutureIds(response)) > UpcomingLimit

\* C7: a run whose upcoming-episodes send succeeded leaves Aired-State as it
\* found it and makes Upcoming-State the first five future ids of its fetch.
C7_UpcomingSendWritesUpcomingOnly ==
    SentOk("upcoming") =>
        /\ outcome = "UpcomingChanged"
        /\ latest_episode_json = before[1]
        /\ upcoming_notified_json = <<FirstFive(FutureIds(response))>>

\* the stored episode is on the air under another title or airdate, and not rewritten
C7_Witness ==
    /\ SentOk("upcoming")
    /\ before[1] # <<>>
    /\ AiredSet(response) # {}
    /\ ~Reflects(before[1][1], AiredSet(response))

\* C8: when the run before got the same fetch result and wrote no state (its
\* send failed or its outcome was NoChange), this run has the same outcome and
\* composes the same mail.
C8_SameOutcomeAfterNoWrite ==
    (/\ Decided
     /\ prior # <<>>
     /\ \/ prior[1].outcome = "NoChange"
        \/ prior[1].sends # <<>> /\ ~prior[1].sends[1].ok)
    => /\ outcome = prior[1].outcome
       /\ Mails(sends) = Mails(prior[1].sends)

\* the send that failed in the run before is made again, and succeeds
C8_Witness ==
    /\ Decided
    /\ prior # <<>>
    /\ prior[1].sends # <<>>
    /\ ~prior[1].sends[1].ok
    /\ sends # <<>>
    /\ sends[1].ok

\* C9: no run ends in an uncaught error.
C9_NoUncaughtError == exit # "uncaught"

\* C10: once a send has succeeded, every later run that gets the same fetch
\* result has outcome NoChange, attempts no send and writes no state.
C10_NoDuplicate ==
    (Decided /\ prior # <<>> /\ prior[1].notified) =>
        /\ outcome = "NoChange"
        /\ sends = <<>>
        /\ Files = before

\* the second run after the send, over a fetch with more than five future episodes
C10_Witness ==
    /\ Decided
    /\ prior # <<>>
    /\ prior[1].notified
    /\ prior[1].sends = <<>>
    /\ AiredSet(response) # {}
    /\ Len(FutureIds(response)) > UpcomingLimit

====
